---- MODULE Spec2Model ----
(***************************************************************************)
(* The CAPTCHA session store of src/main.py and the three routes that use  *)
(* it: get_captcha, fetch_timetable and fetch_attendance.                  *)
(*                                                                         *)
(* The routes are plain `def` handlers, so the framework runs them on a    *)
(* pool of worker threads: requests interleave between any two accesses to *)
(* the module-level dict captcha_sessions.  One action of the model is one *)
(* such access together with the thread-local code around it; a single     *)
(* dict operation (lookup, store, del, one step of an iterator) is atomic. *)
(* Upstream HTTP calls touch no shared state; their outcome is an input    *)
(* chosen by the environment.                                              *)
(***************************************************************************)
EXTENDS Integers, Sequences, FiniteSets, TLC

\* ---- bounds of the model
NumReqs == 2          \* worker threads serving requests at the same time
MaxHandles == 2       \* challenges the upstream ever grants (and handles ever stored)
MaxTime == 20         \* the clock stops here (minutes)
TickMinutes == 10     \* granularity of the clock (minutes)
MaxRows == 2          \* body rows of a report table

\* ---- program constants
TTL == 10             \* timedelta(minutes=10)
NoHandle == 0         \* session_id: str = Form(default="")
MinCols == 13         \* if len(cols) >= 13

Reqs == 1..NumReqs
Handles == 1..MaxHandles
\* A session_id that get_captcha never returned.
Unknown == MaxHandles + 1
Fetch == {"timetable", "attendance"}
Ops == {"captcha"} \cup Fetch

VARIABLES
    now,               \* datetime.now()
    captcha_sessions,  \* the module-level dict: handle -> record
    issued,            \* history: handle -> the client and token stored under it
    nclients,          \* clients that obtained a challenge so far
    req,               \* per worker thread: the request it serves and its locals
    response,          \* the response that the step into this state sent, if any
    page,              \* the table of the report page a parser is given
    report             \* what the parser made of it

vars == <<now, captcha_sessions, issued, nclients, req, response, page, report>>

EmptyMap == [h \in {} |-> 0]
Put(d, k, v) == [x \in (DOMAIN d) \cup {k} |-> IF x = k THEN v ELSE d[x]]
Del(d, k) == [x \in (DOMAIN d) \ {k} |-> d[x]]

\* A thread that serves no request.
Idle ==
    [pc |-> "idle", op |-> "none", session_id |-> NoHandle, session |-> 0, csrf |-> 0,
     current_time |-> 0, expired_sessions |-> <<>>, it_used |-> 0, it_pos |-> 0,
     del_pos |-> 0, cleaned |-> 0, result |-> "none", resumed |-> FALSE, late |-> FALSE,
     stale |-> FALSE]

NoResponse ==
    [op |-> "none", session_id |-> NoHandle, result |-> "none",
     resumed |-> FALSE, late |-> FALSE, stale |-> FALSE]

\* No report page is being parsed.
NoPage == [kind |-> "none", has_thead |-> FALSE, ths |-> <<>>, has_tbody |-> FALSE, rows |-> <<>>]
NoReport == [kind |-> "none", result |-> "none", data |-> EmptyMap]

Init ==
    /\ now = 0
    /\ captcha_sessions = EmptyMap
    /\ issued = EmptyMap
    /\ nclients = 0
    /\ req = [r \in Reqs |-> Idle]
    /\ response = NoResponse
    /\ page = NoPage
    /\ report = NoReport

\* ---- helpers translated from the source

\* current_time - data["created_at"] > timedelta(minutes=10)
Expired_ge(rec, t) == t - rec.created_at >= TTL
Expired(rec, t) == t - rec.created_at > TTL

\* secrets.token_urlsafe(16): 128 random bits.  A draw is modelled as a value
\* that no earlier draw returned; which one is immaterial, so the least
\* unused handle is taken.  `used` is the set of handles drawn so far.
token_urlsafe_const(used) == 1
token_urlsafe(used) == CHOOSE h \in Handles \ used : \A g \in Handles \ used : h <= g

\* requests.Session() of the sessionless path of thread r: an object no
\* record ever holds.  Clients that obtain a challenge are numbered 1, 2, ...
FreshClient(r) == 0 - r
\* soup.find("meta", {"name": "csrf-token"})["content"]: the token the
\* upstream issued to the cookie session of client c, named after it.
CsrfOf(c) == c

\* session_id in captcha_sessions
SessionKnown_any(sid, d) == TRUE
SessionKnown(sid, d) == sid \in DOMAIN d

\* dict iterator: the next key after position pos, in insertion order
\* (handles are stored in the order they are drawn).
HasNext(d, pos) == \E h \in DOMAIN d : h > pos
NextKey(d, pos) == CHOOSE h \in DOMAIN d : h > pos /\ \A g \in DOMAIN d : g > pos => h <= g

\* fetch_timetable deletes the record when the login is refused (216-217);
\* fetch_attendance returns without deleting it (342-347).
ConsumesOnAuthFailed(op) == op = "timetable"
\* fetch_timetable deletes the record when no table is found (235-236);
\* fetch_attendance returns without deleting it (364-369).
ConsumesOnNoTable(op) == op = "timetable"

\* The locals of cleanup_expired_sessions die when it returns.
ClearSweep(q) == [q EXCEPT !.current_time = 0, !.expired_sessions = <<>>,
                           !.it_used = 0, !.it_pos = 0, !.del_pos = 0, !.cleaned = 0]
\* cleanup_expired_sessions returns normally, having logged
\* "Cleaned up {len(expired_sessions)} expired sessions" (line 51) ...
Swept(q) == [ClearSweep(q) EXCEPT !.pc = "swept", !.cleaned = Len(q.expired_sessions)]
\* ... or through its except clause (lines 52-53).
SweepError(q) == [ClearSweep(q) EXCEPT !.pc = "sweep_error"]

\* The handler of thread r returns: the response is sent and the thread is free.
Respond(r, sid, res) ==
    /\ req' = [req EXCEPT ![r] = Idle]
    /\ response' = [op |-> req[r].op, session_id |-> sid, result |-> res,
                resumed |-> req[r].resumed, late |-> req[r].late, stale |-> req[r].stale]

AfterSweep == {"swept", "sweep_error"}

\* get_captcha requests in flight that have not yet obtained a challenge.
AwaitsChallenge(r) ==
    req[r].op = "captcha" /\ req[r].pc \in {"sweep_iter", "sweep_del"} \cup AfterSweep

\* The session_id form field of a fetch request: omitted, a handle that some
\* get_captcha call returned, or some other string (handles cannot be guessed).
SessionIds == {NoHandle, Unknown} \cup DOMAIN issued

\* ---- actions

\* A request arrives and the handler enters cleanup_expired_sessions:
\* the clock is read and the loop over captcha_sessions.items() starts.
\* Worker threads are interchangeable: the request takes the first free one.
Begin(r, o, sid) ==
    /\ req[r].pc = "idle"
    /\ \A q \in Reqs : q < r => req[q].pc # "idle"
    /\ o = "captcha" => sid = NoHandle
    /\ o = "captcha" =>
          nclients + Cardinality({q \in Reqs : AwaitsChallenge(q)}) < MaxHandles
    /\ req' = [req EXCEPT ![r] =
          [Idle EXCEPT !.pc = "sweep_iter", !.op = o, !.session_id = sid,
                       !.current_time = now,
                       !.it_used = Cardinality(DOMAIN captcha_sessions),
                       !.late = (sid \in DOMAIN issued /\ sid \notin DOMAIN captcha_sessions),
                       !.stale = (sid \in DOMAIN captcha_sessions
                                    /\ Expired(captcha_sessions[sid], now))]]
    /\ response' = NoResponse
    /\ UNCHANGED <<now, captcha_sessions, issued, nclients>>
    /\ UNCHANGED <<page, report>>

\* One step of `for session_id, data in captcha_sessions.items()`.  The
\* iterator raises RuntimeError when the dict changed size since the loop
\* started; the except clause of cleanup_expired_sessions swallows it and the
\* sweep ends without deleting anything.  When the iterator is exhausted the
\* deletion loop starts (and ends at once over an empty list).
SweepIter(r) ==
    /\ req[r].pc = "sweep_iter"
    /\ req' = [req EXCEPT ![r] =
          IF Cardinality(DOMAIN captcha_sessions) # req[r].it_used
          THEN SweepError(req[r])
          ELSE IF HasNext(captcha_sessions, req[r].it_pos)
          THEN LET h == NextKey(captcha_sessions, req[r].it_pos) IN
               [req[r] EXCEPT !.it_pos = h,
                              !.expired_sessions =
                                  IF Expired(captcha_sessions[h], req[r].current_time)
                                  THEN Append(@, h) ELSE @]
          ELSE IF req[r].expired_sessions = <<>>
          THEN Swept(req[r])
          ELSE [req[r] EXCEPT !.pc = "sweep_del"]]
    /\ response' = NoResponse
    /\ UNCHANGED <<now, captcha_sessions, issued, nclients>>
    /\ UNCHANGED <<page, report>>

\* One step of `for session_id in expired_sessions: del captcha_sessions[...]`.
\* del raises KeyError when the key is gone; the except clause swallows it and
\* the rest of the list is not deleted.
SweepDel(r) ==
    /\ req[r].pc = "sweep_del"
    /\ LET q == req[r]
           h == q.expired_sessions[q.del_pos + 1]
       IN IF h \in DOMAIN captcha_sessions
          THEN /\ captcha_sessions' = Del(captcha_sessions, h)
               /\ req' = [req EXCEPT ![r] =
                     IF q.del_pos + 1 = Len(q.expired_sessions)
                     THEN Swept(q)
                     ELSE [q EXCEPT !.del_pos = @ + 1]]
          ELSE /\ req' = [req EXCEPT ![r] = SweepError(q)]
               /\ UNCHANGED captcha_sessions
    /\ response' = NoResponse
    /\ UNCHANGED <<now, issued, nclients>>
    /\ UNCHANGED <<page, report>>

\* ---- get_captcha

\* get_captcha with the record stored before the CAPTCHA image is looked up.
CaptchaUpstream_early(r) ==
    /\ req[r].pc \in AfterSweep
    /\ req[r].op = "captcha"
    /\ \E out \in {"net_error", "no_csrf", "no_captcha", "ok"} :
          IF out = "ok"
          THEN /\ nclients' = nclients + 1
               /\ req' = [req EXCEPT ![r] =
                     [ClearSweep(req[r]) EXCEPT !.pc = "captcha_store",
                          !.session = nclients + 1, !.csrf = CsrfOf(nclients + 1)]]
               /\ response' = NoResponse
               /\ UNCHANGED <<captcha_sessions, issued>>
          ELSE /\ Respond(r, NoHandle,
                     IF out = "net_error" THEN "Network error"
                     ELSE IF out = "no_csrf" THEN "Failed to get CSRF token"
                     ELSE "CAPTCHA not found")
               /\ UNCHANGED nclients
               /\ IF out = "no_captcha"
                  THEN LET sid == token_urlsafe(DOMAIN issued)
                           rec == [session |-> nclients + 1, csrf |-> CsrfOf(nclients + 1)]
                       IN /\ captcha_sessions' =
                                Put(captcha_sessions, sid,
                                    [session |-> rec.session, csrf |-> rec.csrf,
                                     created_at |-> now])
                          /\ issued' = Put(issued, sid, rec)
                  ELSE UNCHANGED <<captcha_sessions, issued>>
    /\ UNCHANGED now
    /\ UNCHANGED <<page, report>>

\* get_captcha, lines 62-112: a fresh client fetches the login page, probes
\* for the CAPTCHA and downloads the image.  Nothing shared is touched.
CaptchaUpstream(r) ==
    /\ req[r].pc \in AfterSweep
    /\ req[r].op = "captcha"
    /\ \E out \in {"net_error", "no_csrf", "no_captcha", "ok"} :
          IF out = "ok"
          THEN /\ nclients' = nclients + 1
               /\ req' = [req EXCEPT ![r] =
                     [ClearSweep(req[r]) EXCEPT !.pc = "captcha_store",
                          !.session = nclients + 1, !.csrf = CsrfOf(nclients + 1)]]
               /\ response' = NoResponse
          ELSE /\ Respond(r, NoHandle,
                     IF out = "net_error" THEN "Network error"
                     ELSE IF out = "no_csrf" THEN "Failed to get CSRF token"
                     ELSE "CAPTCHA not found")
               /\ UNCHANGED nclients
    /\ UNCHANGED <<now, captcha_sessions, issued>>
    /\ UNCHANGED <<page, report>>

\* get_captcha, lines 115-128: draw the handle, store the record, answer
\* with the image and the handle.
CaptchaStore(r) ==
    /\ req[r].pc = "captcha_store"
    /\ LET sid == token_urlsafe(DOMAIN issued) IN
          /\ captcha_sessions' = Put(captcha_sessions, sid,
                [session |-> req[r].session, csrf |-> req[r].csrf, created_at |-> now])
          /\ issued' = Put(issued, sid, [session |-> req[r].session, csrf |-> req[r].csrf])
          /\ Respond(r, sid, "captcha")
    /\ UNCHANGED <<now, nclients>>
    /\ UNCHANGED <<page, report>>

\* ---- fetch_timetable / fetch_attendance

\* `if session_id:` / `if session_id not in captcha_sessions:` (158-165, 293-299)
Check(r) ==
    /\ req[r].pc \in AfterSweep
    /\ req[r].op \in Fetch
    /\ IF req[r].session_id # NoHandle /\ ~SessionKnown(req[r].session_id, captcha_sessions)
       THEN Respond(r, req[r].session_id, "Invalid or expired session")
       ELSE /\ req' = [req EXCEPT ![r] =
                 [ClearSweep(req[r]) EXCEPT !.pc =
                      IF req[r].session_id # NoHandle THEN "resume" ELSE "fallback"]]
            /\ response' = NoResponse
    /\ UNCHANGED <<now, captcha_sessions, issued, nclients>>
    /\ UNCHANGED <<page, report>>

\* The record a request takes its client and token from.
ResumeRecord_first(d, sid) == d[CHOOSE h \in DOMAIN d : \A g \in DOMAIN d : h <= g]
ResumeRecord(d, sid) == d[sid]

\* session_data = captcha_sessions[session_id] (167-169, 300-302).  The
\* lookup raises KeyError when the record went away after the membership
\* test; the handler's `except Exception` answers "Internal server error".
Resume(r) ==
    /\ req[r].pc = "resume"
    /\ IF req[r].session_id \in DOMAIN captcha_sessions
       THEN /\ LET rec == ResumeRecord(captcha_sessions, req[r].session_id) IN
               req' = [req EXCEPT ![r] =
                  [req[r] EXCEPT !.pc = "login", !.session = rec.session,
                                 !.csrf = rec.csrf, !.resumed = TRUE]]
            /\ response' = NoResponse
       ELSE Respond(r, req[r].session_id, "Internal server error")
    /\ UNCHANGED <<now, captcha_sessions, issued, nclients>>
    /\ UNCHANGED <<page, report>>

\* No session_id: a fresh client fetches the login page for a CSRF token
\* (171-193, 304-322).
Fallback(r) ==
    /\ req[r].pc = "fallback"
    /\ \E out \in {"net_error", "no_csrf", "ok"} :
          IF out = "ok"
          THEN /\ req' = [req EXCEPT ![r] =
                     [req[r] EXCEPT !.pc = "login", !.session = FreshClient(r),
                                    !.csrf = CsrfOf(FreshClient(r))]]
               /\ response' = NoResponse
          ELSE Respond(r, NoHandle,
                  IF out = "net_error" THEN "Network error" ELSE "Failed to get CSRF token")
    /\ UNCHANGED <<now, captcha_sessions, issued, nclients>>
    /\ UNCHANGED <<page, report>>

\* The upstream part of the handler after the client and the token are
\* known: session.post(login_url, ...) and the test for "Logout" (211-222,
\* 339-347), then the report request and the parse of its table (228-253,
\* 358-402).  Nothing shared is touched until a record is to be deleted.
\*   login_error  the login request raises RequestException
\*   no_marker    the login response lacks "Logout"
\*   fetch_error  the report request raises RequestException
\*   no_table     the report page holds no table
\*   parse_error  the parsing code raises (a table without thead or tbody, a
\*                row without cells, int() of a non-numeric cell)
\*   ok           the report is extracted
LoginAndFetch(r) ==
    /\ req[r].pc = "login"
    /\ \E out \in {"login_error", "no_marker", "fetch_error", "no_table", "parse_error", "ok"} :
          LET res == IF out \in {"login_error", "fetch_error"} THEN "Network error"
                     ELSE IF out = "no_marker" THEN "Invalid credentials or captcha"
                     ELSE IF out = "no_table" THEN "not found"
                     ELSE IF out = "parse_error" THEN "Internal server error"
                     ELSE "success"
              consumes == \/ out = "ok"
                          \/ out = "no_marker" /\ ConsumesOnAuthFailed(req[r].op)
                          \/ out = "no_table" /\ ConsumesOnNoTable(req[r].op)
          IN IF consumes
             THEN /\ req' = [req EXCEPT ![r].pc = "consume_check", ![r].result = res]
                  /\ response' = NoResponse
             ELSE Respond(r, req[r].session_id, res)
    /\ UNCHANGED <<now, captcha_sessions, issued, nclients>>
    /\ UNCHANGED <<page, report>>

\* `if session_id and session_id in captcha_sessions:` (216, 235, 256, 405)
ConsumeCheck(r) ==
    /\ req[r].pc = "consume_check"
    /\ IF req[r].session_id # NoHandle /\ req[r].session_id \in DOMAIN captcha_sessions
       THEN /\ req' = [req EXCEPT ![r].pc = "consume_del"]
            /\ response' = NoResponse
       ELSE Respond(r, req[r].session_id, req[r].result)
    /\ UNCHANGED <<now, captcha_sessions, issued, nclients>>
    /\ UNCHANGED <<page, report>>

\* `del captcha_sessions[session_id]` (217, 236, 257, 406); KeyError when
\* the record went away after the membership test.
ConsumeDel(r) ==
    /\ req[r].pc = "consume_del"
    /\ IF req[r].session_id \in DOMAIN captcha_sessions
       THEN /\ captcha_sessions' = Del(captcha_sessions, req[r].session_id)
            /\ Respond(r, req[r].session_id, req[r].result)
       ELSE /\ Respond(r, req[r].session_id, "Internal server error")
            /\ UNCHANGED captcha_sessions
    /\ UNCHANGED <<now, issued, nclients>>
    /\ UNCHANGED <<page, report>>

\* Time passes.
Tick ==
    /\ now + TickMinutes <= MaxTime
    /\ now' = now + TickMinutes
    /\ response' = NoResponse
    /\ UNCHANGED <<captcha_sessions, issued, nclients, req>>
    /\ UNCHANGED <<page, report>>

Next ==
    \/ \E r \in Reqs, o \in Ops, sid \in SessionIds : Begin(r, o, sid)
    \/ \E r \in Reqs : SweepIter(r)
    \/ \E r \in Reqs : SweepDel(r)
    \/ \E r \in Reqs : CaptchaUpstream(r)
    \/ \E r \in Reqs : CaptchaStore(r)
    \/ \E r \in Reqs : Check(r)
    \/ \E r \in Reqs : Resume(r)
    \/ \E r \in Reqs : Fallback(r)
    \/ \E r \in Reqs : LoginAndFetch(r)
    \/ \E r \in Reqs : ConsumeCheck(r)
    \/ \E r \in Reqs : ConsumeDel(r)
    \/ Tick

Spec == Init /\ [][Next]_vars

\* The same handlers when requests are served one at a time: a request is
\* accepted only while no other is in flight.
BeginSeq(r, o, sid) ==
    /\ \A q \in Reqs : req[q].pc = "idle"
    /\ Begin(r, o, sid)

NextSeq ==
    \/ \E r \in Reqs, o \in Ops, sid \in SessionIds : BeginSeq(r, o, sid)
    \/ \E r \in Reqs : SweepIter(r)
    \/ \E r \in Reqs : SweepDel(r)
    \/ \E r \in Reqs : CaptchaUpstream(r)
    \/ \E r \in Reqs : CaptchaStore(r)
    \/ \E r \in Reqs : Check(r)
    \/ \E r \in Reqs : Resume(r)
    \/ \E r \in Reqs : Fallback(r)
    \/ \E r \in Reqs : LoginAndFetch(r)
    \/ \E r \in Reqs : ConsumeCheck(r)
    \/ \E r \in Reqs : ConsumeDel(r)
    \/ Tick

SpecSeq == Init /\ [][NextSeq]_vars

\* ---- the parsers of the report pages

\* A text is the sequence of its characters; a row (tr) is the sequence of
\* the texts of its td cells.  Python indexes from 0, sequences from 1.

\* str.strip()
RECURSIVE lstrip(_)
lstrip(s) == IF s # <<>> /\ Head(s) = " " THEN lstrip(Tail(s)) ELSE s
RECURSIVE rstrip(_)
rstrip(s) == IF s # <<>> /\ s[Len(s)] = " " THEN rstrip(SubSeq(s, 1, Len(s) - 1)) ELSE s
strip(s) == rstrip(lstrip(s))

Digit == [c \in {"0", "1", "2", "3", "4", "5", "6", "7", "8", "9"} |->
             CHOOSE n \in 0..9 : ToString(n) = c]
\* The texts int() accepts, among texts of digits, letters and blanks.
IsDecimal(s) == s # <<>> /\ \A i \in 1..Len(s) : s[i] \in DOMAIN Digit
RECURSIVE Decimal(_)
Decimal(s) == IF s = <<>> THEN 0
              ELSE 10 * Decimal(SubSeq(s, 1, Len(s) - 1)) + Digit[s[Len(s)]]

\* An evaluation either returns a value or raises.
Returned(v) == [raised |-> FALSE, value |-> v]
Raised == [raised |-> TRUE, value |-> 0]

\* int(text or 0): the empty text is falsy and gives int(0); int() of any
\* other text that is not a number raises ValueError.
int_or_0(text) ==
    IF text = <<>> THEN Returned(0)
    ELSE IF IsDecimal(text) THEN Returned(Decimal(text))
    ELSE Raised

\* f"{subject_code}_{component}"
Key(subject_code, component) == subject_code \o <<"_">> \o component

\* fetch_attendance, lines 373-402: the loop over tbody.find_all("tr"), from
\* row i on, with the entries made so far.
RECURSIVE AttendanceRows(_, _, _)
AttendanceRows(rows, i, attendance_data) ==
    IF i > Len(rows) THEN Returned(attendance_data)
    ELSE LET cols == rows[i] IN
         IF Len(cols) >= MinCols
         THEN LET subject_code == strip(cols[2])
                  component == strip(cols[4])
                  total_classes == int_or_0(strip(cols[9]))
                  attended == int_or_0(strip(cols[10]))
                  absent == int_or_0(strip(cols[11]))
              IN IF total_classes.raised \/ attended.raised \/ absent.raised
                 THEN Raised
                 ELSE AttendanceRows(rows, i + 1,
                         Put(attendance_data, Key(subject_code, component),
                             [subject_code |-> subject_code,
                              component |-> component,
                              total_classes |-> total_classes.value,
                              attended |-> attended.value,
                              absent |-> absent.value,
                              percentage |-> strip(cols[13])]))
         ELSE AttendanceRows(rows, i + 1, attendance_data)

\* fetch_attendance, lines 371-425, for a page that holds a table: the
\* parse, and the response of the handler.  table.find("tbody") is None for
\* a table without tbody, and None.find_all raises; any exception is answered
\* "Internal server error" (420-425).
parse_attendance(p) ==
    LET out == IF p.has_tbody THEN AttendanceRows(p.rows, 1, EmptyMap) ELSE Raised IN
    IF out.raised
    THEN [kind |-> "attendance", result |-> "Internal server error", data |-> EmptyMap]
    ELSE [kind |-> "attendance", result |-> "success", data |-> out.value]

\* [th.text.strip() for th in thead.find_all("th")][1:]
HeaderLabels_all(ths) == [k \in 1..Len(ths) |-> strip(ths[k])]
HeaderLabels(ths) == [k \in 1..(IF ths = <<>> THEN 0 ELSE Len(ths) - 1) |-> strip(ths[k + 1])]

\* dict(zip(headers, slots)): pairs up to the shorter of the two; a label
\* that occurs twice keeps the later slot.
ZipDict(headers, slots) ==
    LET n == IF Len(headers) <= Len(slots) THEN Len(headers) ELSE Len(slots) IN
    [l \in {headers[k] : k \in 1..n} |->
        slots[CHOOSE k \in 1..n : headers[k] = l /\ \A j \in 1..n : headers[j] = l => j <= k]]

\* fetch_timetable, lines 249-253: the loop over the body rows.  cols[0] of a
\* row without td cells raises IndexError.
RECURSIVE TimetableRows(_, _, _, _)
TimetableRows(headers, rows, i, timetable) ==
    IF i > Len(rows) THEN Returned(timetable)
    ELSE LET cols == rows[i] IN
         IF cols = <<>> THEN Raised
         ELSE LET day == strip(cols[1])
                  slots == [k \in 1..(Len(cols) - 1) |-> strip(cols[k + 1])]
              IN TimetableRows(headers, rows, i + 1,
                               Put(timetable, day, ZipDict(headers, slots)))

\* fetch_timetable, lines 243-276, for a page that holds a table.
parse_timetable(p) ==
    LET out == IF p.has_thead /\ p.has_tbody
               THEN TimetableRows(HeaderLabels(p.ths), p.rows, 1, EmptyMap)
               ELSE Raised
    IN IF out.raised
       THEN [kind |-> "timetable", result |-> "Internal server error", data |-> EmptyMap]
       ELSE [kind |-> "timetable", result |-> "success", data |-> out.value]

\* ---- report pages the upstream may send

SeqsUpTo(S, n) == UNION {[1..k -> S] : k \in 0..n}

\* Texts of numeric cells: empty, a number with a blank, a number, not a number.
NumTexts == {<<>>, <<" ", "7">>, <<"1", "2">>, <<"x">>}
SubjectCodes == {<<"S", "1">>, <<"S", "2", " ">>}
\* A body row of the attendance table with n cells.
AttendanceRow(n, code, total, att, abs) ==
    [k \in 1..n |-> IF k = 2 THEN code
                    ELSE IF k = 4 THEN <<"L">>
                    ELSE IF k = 9 THEN total
                    ELSE IF k = 10 THEN att
                    ELSE IF k = 11 THEN abs
                    ELSE IF k = 13 THEN <<"9", "0", "%">>
                    ELSE <<"-">>]
AttendanceRowSet ==
    {AttendanceRow(n, code, total, att, abs) :
        n \in (MinCols - 1)..(MinCols + 1), code \in SubjectCodes,
        total \in NumTexts, att \in NumTexts, abs \in NumTexts}
AttendancePages ==
    {[kind |-> "attendance", has_thead |-> FALSE, ths |-> <<>>, has_tbody |-> TRUE, rows |-> rs] :
        rs \in SeqsUpTo(AttendanceRowSet, MaxRows)}
    \cup {[kind |-> "attendance", has_thead |-> FALSE, ths |-> <<>>, has_tbody |-> FALSE,
           rows |-> <<>>]}

\* Header rows: none, the label column alone, fewer, as many and repeated labels.
FullHeader == <<<<"D", "a", "y">>, <<" ", "9">>, <<"1", "0", " ">>>>
HeaderRows == {<<>>, SubSeq(FullHeader, 1, 1), SubSeq(FullHeader, 1, 2), FullHeader,
               <<FullHeader[1], FullHeader[2], FullHeader[2]>>}
TimetableCells == {<<" ", "M", " ">>, <<"a">>, <<"b", " ">>}
TimetableRowSet == SeqsUpTo(TimetableCells, Len(FullHeader))
TimetablePages ==
    {[kind |-> "timetable", has_thead |-> TRUE, ths |-> h, has_tbody |-> TRUE, rows |-> rs] :
        h \in HeaderRows, rs \in SeqsUpTo(TimetableRowSet, MaxRows)}
    \cup {[kind |-> "timetable", has_thead |-> t, ths |-> FullHeader, has_tbody |-> b,
           rows |-> <<>>] : t \in BOOLEAN, b \in BOOLEAN}

\* No request is in flight and nothing is stored.
StoreAtRest ==
    /\ now = 0
    /\ captcha_sessions = EmptyMap
    /\ issued = EmptyMap
    /\ nclients = 0
    /\ req = [r \in Reqs |-> Idle]
    /\ response = NoResponse

InitAttendance == StoreAtRest /\ page \in AttendancePages /\ report = NoReport
InitTimetable == StoreAtRest /\ page \in TimetablePages /\ report = NoReport

ParseAttendance ==
    /\ page.kind = "attendance"
    /\ report = NoReport
    /\ report' = parse_attendance(page)
    /\ UNCHANGED <<now, captcha_sessions, issued, nclients, req, response, page>>

ParseTimetable ==
    /\ page.kind = "timetable"
    /\ report = NoReport
    /\ report' = parse_timetable(page)
    /\ UNCHANGED <<now, captcha_sessions, issued, nclients, req, response, page>>

SpecAttendance == InitAttendance /\ [][ParseAttendance]_vars
SpecTimetable == InitTimetable /\ [][ParseTimetable]_vars

\* ---- properties

Registered(h) == h \in DOMAIN captcha_sessions
\* The record of h was stored and has since been removed.
Removed(h) == h \in DOMAIN issued /\ h \notin DOMAIN captcha_sessions
Sweeping(r) == req[r].pc \in {"sweep_iter", "sweep_del"}
\* The request of thread r has sent its login to the upstream.
LoginSubmitted(r) == req[r].pc \in {"consume_check", "consume_del"}

\* C1: when fetch_timetable or fetch_attendance returns after resuming a
\* handle, with the report extracted, the table not found or the parse
\* failed, the handle is no longer registered.
C1_HandleConsumedAfterFetch ==
    (/\ response.op \in Fetch
     /\ response.resumed
     /\ response.result \in {"success", "not found", "Internal server error"})
    => ~Registered(response.session_id)

\* C2: when the login response lacks "Logout", the request answers
\* "Invalid credentials or captcha" and the handle it resumed is no longer
\* registered, for the timetable and for the attendance route.
C2_AuthFailedConsumes ==
    (/\ response.op \in Fetch
     /\ response.resumed
     /\ response.result = "Invalid credentials or captcha")
    => ~Registered(response.session_id)

\* C3: two requests in flight never both submit a login with the record of
\* the same handle.
C3_NoDoubleSpend ==
    \A r1, r2 \in Reqs :
        (/\ r1 # r2
         /\ req[r1].resumed /\ LoginSubmitted(r1)
         /\ req[r2].resumed /\ LoginSubmitted(r2))
        => req[r1].session_id # req[r2].session_id

\* C4: a fetch request that starts after the record of its handle was
\* removed never gets past the membership test: it resumes nothing, submits
\* no login, deletes nothing outside the sweep, and is answered
\* "Invalid or expired session".
C4_RemovedHandleRejected ==
    /\ \A r \in Reqs :
          req[r].late => /\ req[r].pc \in {"sweep_iter", "sweep_del"} \cup AfterSweep
                         /\ ~req[r].resumed
    /\ response.late => /\ response.result = "Invalid or expired session"
                        /\ ~response.resumed
C4_Witness ==
    /\ response.late
    /\ response.op \in Fetch
    /\ response.result = "Invalid or expired session"

\* C5: when a request that resumed a handle fails with a network error or an
\* unexpected exception, the handle is no longer registered when the failure
\* response is returned.
C5_FailureConsumes ==
    (/\ response.op \in Fetch
     /\ response.resumed
     /\ response.result \in {"Network error", "Internal server error"})
    => ~Registered(response.session_id)

C7_StaleNeverResumed ==
    \A r \in Reqs : req[r].stale => ~req[r].resumed

\* C8: the handle a get_captcha call returns was never returned before, it
\* maps to the record of that call, and storing it changes no other record.
C8_HandlesDistinct ==
    [][\A r \in Reqs :
          (req[r].pc = "captcha_store" /\ req'[r].pc = "idle") =>
             LET sid == response'.session_id IN
             /\ sid \notin DOMAIN issued
             /\ sid \in DOMAIN captcha_sessions'
             /\ captcha_sessions'[sid].session = req[r].session
             /\ captcha_sessions'[sid].csrf = req[r].csrf
             /\ \A h \in DOMAIN captcha_sessions :
                   /\ h \in DOMAIN captcha_sessions'
                   /\ captcha_sessions'[h] = captcha_sessions[h]]_vars
\* A get_captcha call has just returned a handle while another is about to
\* store its own.
C8_Witness ==
    /\ response.result = "captcha"
    /\ \E r \in Reqs : req[r].pc = "captcha_store"
    /\ captcha_sessions # EmptyMap

\* C9 (as claimed): a request that has submitted its login carried a handle
\* and resumed its record.
C9_NoSessionlessLogin ==
    \A r \in Reqs : LoginSubmitted(r) => (req[r].session_id # NoHandle /\ req[r].resumed)

\* C9 (amended): a login submitted with a handle uses the client and the
\* token stored under that handle; a request without a handle reaches the
\* login step too, with a client and a token of its own that no record holds.
C9_LoginClient ==
    \A r \in Reqs :
        (req[r].pc = "login" \/ LoginSubmitted(r)) =>
            IF req[r].session_id # NoHandle
            THEN /\ req[r].resumed
                 /\ req[r].session_id \in DOMAIN issued
                 /\ req[r].session = issued[req[r].session_id].session
                 /\ req[r].csrf = issued[req[r].session_id].csrf
            ELSE /\ ~req[r].resumed
                 /\ \A h \in DOMAIN issued : issued[h].session # req[r].session
                                             /\ issued[h].csrf # req[r].csrf
C9_Witness ==
    \E r1, r2 \in Reqs :
        /\ LoginSubmitted(r1) /\ req[r1].resumed /\ req[r1].session_id = MaxHandles
        /\ LoginSubmitted(r2) /\ req[r2].session_id = NoHandle

\* C10: a handle whose record was removed is never registered again, and
\* only handles that were stored are registered.
C10_NoWayBack ==
    [][/\ \A h \in Handles : Removed(h) => h \notin DOMAIN captcha_sessions'
       /\ DOMAIN captcha_sessions' \subseteq DOMAIN issued']_vars
\* A get_captcha call has just stored a handle after another handle's record
\* was removed.
C10_Witness ==
    /\ response.result = "captcha"
    /\ \E h \in Handles : Removed(h) /\ h # response.session_id

\* C11: when the record of its handle was removed between a request's
\* presence test and its deletion, the deletion completes without error and
\* the request returns the result it had computed.
C11_ConsumeIdempotent ==
    [][\A r \in Reqs :
          (req[r].pc = "consume_del" /\ req'[r].pc = "idle") =>
             response'.result = req[r].result]_vars

\* C12: a record lives for at most one login attempt and at most 10 minutes:
\* when a request that logged in with the record of a handle returns, the
\* handle is no longer registered, and when the sweep of a request ends, no
\* record older than 10 minutes at the sweep's clock reading is registered.
C12_RecordLifetime ==
    [][\A r \in Reqs :
          /\ (/\ req[r].resumed
              /\ req[r].pc \in {"login", "consume_check", "consume_del"}
              /\ req'[r].pc = "idle")
             => req[r].session_id \notin DOMAIN captcha_sessions'
          /\ (Sweeping(r) /\ req'[r].pc \in AfterSweep)
             => \A h \in DOMAIN captcha_sessions' :
                   req[r].current_time - captcha_sessions'[h].created_at <= TTL]_vars

\* C15: a request that resumed a handle holds, up to and through its login,
\* the client and the token that were stored under that handle when its
\* challenge was issued, and those of no other handle; a registered record
\* still holds the pair it was stored with.
C15_LoginPair ==
    /\ \A r \in Reqs :
          req[r].resumed =>
             /\ req[r].session_id \in DOMAIN issued
             /\ req[r].session = issued[req[r].session_id].session
             /\ req[r].csrf = issued[req[r].session_id].csrf
             /\ \A h \in DOMAIN issued \ {req[r].session_id} :
                   /\ issued[h].session # req[r].session
                   /\ issued[h].csrf # req[r].csrf
    /\ \A h \in DOMAIN captcha_sessions :
          /\ captcha_sessions[h].session = issued[h].session
          /\ captcha_sessions[h].csrf = issued[h].csrf
\* Two logins with the records of two handles are in flight at once.
C15_Witness ==
    \E r1, r2 \in Reqs :
        /\ req[r1].resumed /\ req[r1].pc = "login"
        /\ req[r2].resumed /\ LoginSubmitted(r2)
        /\ req[r1].session_id # req[r2].session_id

\* C16: a step of get_captcha after its sweep either answers with a handle,
\* and then the client had obtained the token and the image and the handle's
\* record is the only change of the registry, or leaves the registry as it
\* is; a failure response carries no handle.
C16_AllOrNothing ==
    [][\A r \in Reqs :
          (/\ req[r].op = "captcha"
           /\ req[r].pc \in AfterSweep \cup {"captcha_store"}
           /\ req'[r] # req[r]) =>
             IF response'.result = "captcha"
             THEN /\ req[r].pc = "captcha_store"
                  /\ req[r].session # Idle.session
                  /\ req[r].csrf = CsrfOf(req[r].session)
                  /\ response'.session_id \notin DOMAIN captcha_sessions
                  /\ DOMAIN captcha_sessions' =
                        DOMAIN captcha_sessions \cup {response'.session_id}
                  /\ \A h \in DOMAIN captcha_sessions :
                        captcha_sessions'[h] = captcha_sessions[h]
             ELSE /\ captcha_sessions' = captcha_sessions
                  /\ issued' = issued
                  /\ response'.session_id = NoHandle]_vars
\* A get_captcha call has just failed at the CAPTCHA image while a record of
\* an earlier call is registered.
C16_Witness ==
    /\ response.op = "captcha"
    /\ response.result = "CAPTCHA not found"
    /\ captcha_sessions # EmptyMap

\* C17: a sweep running among other requests removes only records that were
\* older than 10 minutes when it read the clock, and when it ends no such
\* record is registered.
C17_ConcurrentSweep ==
    [][\A r \in Reqs :
          (Sweeping(r) /\ req'[r] # req[r]) =>
             /\ \A h \in DOMAIN captcha_sessions \ DOMAIN captcha_sessions' :
                   Expired(captcha_sessions[h], req[r].current_time)
             /\ req'[r].pc \in AfterSweep =>
                   \A h \in DOMAIN captcha_sessions' :
                      ~Expired(captcha_sessions'[h], req[r].current_time)]_vars

\* The body rows of the attendance page that hold at least 13 cells.
LongRows == {i \in 1..Len(page.rows) : Len(page.rows[i]) >= MinCols}
RowKey(cols) == Key(strip(cols[2]), strip(cols[4]))
\* The last of the long rows with the key of row i.
LastOfKey(i) == \A j \in LongRows : RowKey(page.rows[j]) = RowKey(page.rows[i]) => j <= i
\* The number a numeric cell stands for, 0 when it stands for none.
SoftInt(text) == IF IsDecimal(text) THEN Decimal(text) ELSE 0

\* C13: the attendance parse succeeds whatever the numeric cells hold; it
\* makes entries of exactly the rows with at least 13 cells, and each of
\* total_classes, attended and absent is the number in its cell, 0 when the
\* cell is empty or is not a number.
C13_FailSoft ==
    (report.kind = "attendance" /\ page.has_tbody) =>
       /\ report.result = "success"
       /\ DOMAIN report.data = {RowKey(page.rows[i]) : i \in LongRows}
       /\ \A i \in LongRows :
             LastOfKey(i) =>
                LET cols == page.rows[i]
                    entry == report.data[RowKey(cols)]
                IN /\ entry.total_classes = SoftInt(strip(cols[9]))
                   /\ entry.attended = SoftInt(strip(cols[10]))
                   /\ entry.absent = SoftInt(strip(cols[11]))

\* The trimmed text of the first cell of body row i of the timetable page.
DayOf(i) == strip(page.rows[i][1])

\* C14: for a timetable table with a head and a body whose rows each have a
\* first cell, the parse succeeds with one entry per first-cell text (the
\* last row with that text); the entry pairs the k-th header label after the
\* label column with the trimmed text of the k-th remaining cell, as far as
\* both go; a body without rows gives the empty mapping.
C14_Grid ==
    (/\ report.kind = "timetable"
     /\ page.has_thead /\ page.has_tbody
     /\ \A i \in 1..Len(page.rows) : page.rows[i] # <<>>) =>
       /\ report.result = "success"
       /\ DOMAIN report.data = {DayOf(i) : i \in 1..Len(page.rows)}
       /\ page.rows = <<>> => report.data = EmptyMap
       /\ \A i \in 1..Len(page.rows) :
             (\A j \in 1..Len(page.rows) : DayOf(j) = DayOf(i) => j <= i) =>
                LET cols == page.rows[i]
                    entry == report.data[DayOf(i)]
                    labels == Len(page.ths) - 1
                    cells == Len(cols) - 1
                    n == IF labels <= cells THEN labels ELSE cells
                IN /\ DOMAIN entry = {strip(page.ths[k + 1]) : k \in 1..n}
                   /\ \A k \in 1..n :
                         (\A j \in 1..n : page.ths[j + 1] = page.ths[k + 1] => j <= k)
                         => entry[strip(page.ths[k + 1])] = strip(cols[k + 1])
\* A table with the full header and rows of as many cells for different days
\* has been parsed.
C14_Witness ==
    /\ report.kind = "timetable"
    /\ report.result = "success"
    /\ page.ths = FullHeader
    /\ Len(page.rows) > 1
    /\ \A i \in 1..Len(page.rows) : Len(page.rows[i]) = Len(FullHeader)
    /\ Cardinality(DOMAIN report.data) = Len(page.rows)
    /\ \E d \in DOMAIN report.data : Cardinality(DOMAIN report.data[d]) = Len(FullHeader) - 1
====
